---- MODULE Spec2Model ----
(***************************************************************************)
(* Model of cs_media_contracts.py: supplier lookup (get_supplier_name),   *)
(* paginated contract fetch (get_contracts_by_inn) and the media filter   *)
(* (filter_media_contracts).                                              *)
(*                                                                         *)
(* Python values are modelled as follows.                                  *)
(*   - A text is a sequence of characters (one-letter strings).            *)
(*   - A dict is a record; a key the dict does not hold has the value      *)
(*     Absent.  A contract's 'products' key is a list, so its presence is  *)
(*     the separate flag has_products.                                     *)
(*   - A raised exception is an outcome of its own ("exception").          *)
(*   - total / per_page is Python 3 true division.                         *)
(***************************************************************************)
EXTENDS Integers, Sequences, FiniteSets, TLC

\* ------------------------------------------------------------ bounds
MaxProducts == 2   \* products per contract of a filtered page
MaxNameLen == 2    \* characters of a supplier name
MaxNames == 2      \* entries of a supplier's allNames list
MaxTotal == 4      \* contracts reported by the contracts endpoint
MaxPerPage == 2    \* page size reported by the contracts endpoint

\* ------------------------------------------------------------ values
Absent == "absent"            \* a key the dict does not hold
None == "None"                \* Python None as a classification code
NoName == <<None>>            \* Python None as the value of supplier_name
Dash == "-"                   \* the placeholder of lines 111-113
clearspending_base == "https://clearspending.ru/contract/"

OkpdCodes == {"A1"}
Okpd2Codes == {"B1"}

Products ==
    [OKPD : {Absent} \cup OkpdCodes, OKPD2 : {Absent} \cup Okpd2Codes,
     name : {Absent, "n1"}, sum : {Absent, "10"}]

ProductLists == UNION {[1..n -> Products] : n \in 0..MaxProducts}

Contracts ==
    [has_products : {TRUE}, products : ProductLists,
     price : {Absent, "100"}, regNum : {Absent, "r1"}]
    \cup
    [has_products : {FALSE}, products : {<<>>},
     price : {Absent, "100"}, regNum : {Absent, "r1"}]

\* A well-formed contract with registry number r2 and one product under OKPD A1.
MediaContract ==
    [has_products |-> TRUE,
     products |-> <<[OKPD |-> "A1", OKPD2 |-> Absent, name |-> "n2", sum |-> "20"]>>,
     price |-> "200", regNum |-> "r2"]

\* A well-formed contract with registry number r3: a product without codes,
\* then one under OKPD2 B1.
PlainContract ==
    [has_products |-> TRUE,
     products |-> <<[OKPD |-> Absent, OKPD2 |-> Absent, name |-> "n3", sum |-> "30"],
                    [OKPD |-> Absent, OKPD2 |-> "B1", name |-> "n4", sum |-> "40"]>>,
     price |-> "300", regNum |-> "r3"]

\* The pages the filter is applied to: one arbitrary contract, alone or next
\* to MediaContract (before or after it), and the empty page.
Pages ==
    {<<>>} \cup {<<c>> : c \in Contracts}
    \cup {<<c, MediaContract>> : c \in Contracts}
    \cup {<<MediaContract, c>> : c \in Contracts}

VARIABLES
    okpd_ref,          \* content of okpd_smi.json
    okpd2_ref,         \* content of okpd2_smi.json
    contracts,         \* the page of contracts handed to the filter
    media_contracts,   \* the filter's result list
    fpc,               \* filter_media_contracts: "idle", "call", "returned", "raised"
    inn,               \* the argument of get_contracts_by_inn
    pc,                \* get_contracts_by_inn: "idle", "start", "check", "loop", "done"
    response,          \* the response get_supplier_name received
    supplier_name,     \* what get_supplier_name returned
    total,             \* data['total']
    per_page,          \* data['perpage']
    num_pages,         \* math.ceil(total / per_page)
    done_pages,        \* iterations of the page loop completed
    all_media_contracts,  \* the accumulator of the page loop
    result,            \* how the call of get_contracts_by_inn ended
    requests,          \* every requests.get issued, in order
    filter_calls       \* calls of filter_media_contracts made by the page loop

filter_vars == <<okpd_ref, okpd2_ref, contracts, media_contracts, fpc>>
fetch_vars == <<inn, pc, response, supplier_name, total, per_page, num_pages,
                done_pages, all_media_contracts, result, requests, filter_calls>>
vars == <<filter_vars, fetch_vars>>

\* ------------------------------------------------ filter_media_contracts

\* dict.get(key, default)
Get(value, default) == IF value = Absent THEN default ELSE value

\* product.get('OKPD', {}).get('code')
CodeOf(field) == Get(field, None)

ProductMatchesDefaulted(product, oref, o2ref) ==
    Get(product.OKPD, "A1") \in oref \/ Get(product.OKPD2, "B1") \in o2ref

ProductMatches(product, oref, o2ref) ==
    CodeOf(product.OKPD) \in oref \/ CodeOf(product.OKPD2) \in o2ref

MakeSummaryFirstProduct(contract, product) ==
    [contract_url |-> <<clearspending_base, contract.regNum>>,
     contract_price |-> Get(contract.price, Dash),
     product_description |-> Get(contract.products[1].name, Dash),
     product_price |-> Get(contract.products[1].sum, Dash),
     num_products |-> Len(contract.products)]

MakeSummary(contract, product) ==
    [contract_url |-> <<clearspending_base, contract.regNum>>,
     contract_price |-> Get(contract.price, Dash),
     product_description |-> Get(product.name, Dash),
     product_price |-> Get(product.sum, Dash),
     num_products |-> Len(contract.products)]

Raised == [raised |-> TRUE, out |-> <<>>]
Returned(list) == [raised |-> FALSE, out |-> list]

\* The product loop with its break: the first matching product ends it.
RECURSIVE ScanProducts(_, _, _, _)
ScanProducts(contract, i, oref, o2ref) ==
    IF i > Len(contract.products) THEN Returned(<<>>)
    ELSE IF ProductMatches(contract.products[i], oref, o2ref)
         THEN IF contract.regNum = Absent
              THEN Raised
              ELSE Returned(<<MakeSummary(contract, contract.products[i])>>)
         ELSE ScanProducts(contract, i + 1, oref, o2ref)

\* The product loop without the break.
RECURSIVE ScanAllProducts(_, _, _, _)
ScanAllProducts(contract, i, oref, o2ref) ==
    IF i > Len(contract.products) THEN Returned(<<>>)
    ELSE LET rest == ScanAllProducts(contract, i + 1, oref, o2ref) IN
         IF ProductMatches(contract.products[i], oref, o2ref)
         THEN IF contract.regNum = Absent \/ rest.raised
              THEN Raised
              ELSE Returned(<<MakeSummary(contract, contract.products[i])>> \o rest.out)
         ELSE rest

FilterContractNoBreak(contract, oref, o2ref) ==
    IF ~contract.has_products THEN Raised
    ELSE ScanAllProducts(contract, 1, oref, o2ref)

\* One iteration of the contract loop.
FilterContract(contract, oref, o2ref) ==
    IF ~contract.has_products THEN Raised
    ELSE ScanProducts(contract, 1, oref, o2ref)

RECURSIVE FilterFrom(_, _, _, _)
FilterFrom(page, i, oref, o2ref) ==
    IF i > Len(page) THEN Returned(<<>>)
    ELSE LET one == FilterContract(page[i], oref, o2ref) IN
         IF one.raised THEN Raised
         ELSE LET rest == FilterFrom(page, i + 1, oref, o2ref) IN
              IF rest.raised THEN Raised ELSE Returned(one.out \o rest.out)

FilterMediaContracts(page, oref, o2ref) == FilterFrom(page, 1, oref, o2ref)

\* ------------------------------------------------------------ texts

\* u'Не могу найти поставщика с ИНН', written with the two characters N, F.
NotFoundPhrase == <<"N", "F">>
\* u'Что-то пошло не так'
GenericFailure == <<"G">>
\* u'Имярек'
Imyarek == <<"I">>

\* The characters a supplier name is made of.
Alphabet == {"N", "F"}
Names == UNION {[1..n -> Alphabet] : n \in 1..MaxNameLen}
NameLists == UNION {[1..n -> Names] : n \in 0..MaxNames}
Inns == {<<"7">>, <<"7", "8">>}

\* u'Не могу найти поставщика с ИНН {}'.format(inn)
NotFoundMessage(i) == NotFoundPhrase \o <<" ">> \o i

\* sub in text
Contains(sub, text) ==
    \E k \in 1..(Len(text) - Len(sub) + 1) :
        SubSeq(text, k, k + Len(sub) - 1) = sub

\* ------------------------------------------------------ get_supplier_name

\* What requests.get(target_url) can bring: an exception of the client
\* ("network_error"), status 404, a body that is not JSON ("bad_json"), a
\* JSON body without data['suppliers']['data'][0] ("bad_shape"), or a
\* supplier record ("ok") that holds allNames or does not.
FailureKinds == {"network_error", "bad_json", "bad_shape"}

LookupResponses ==
    [kind : FailureKinds \cup {"404"}, has_allNames : {FALSE}, allNames : {<<>>}]
    \cup [kind : {"ok"}, has_allNames : {FALSE}, allNames : {<<>>}]
    \cup [kind : {"ok"}, has_allNames : {TRUE}, allNames : NameLists]

SupplierName(i, resp) ==
    IF resp.kind = "network_error" THEN NoName
    ELSE IF resp.kind = "404" THEN NotFoundMessage(i)
    ELSE IF resp.kind \in {"bad_json", "bad_shape"} THEN NoName
    ELSE LET names == IF resp.has_allNames THEN resp.allNames ELSE <<Imyarek>> IN
         IF names = <<>> THEN NoName ELSE names[1]

\* --------------------------------------------------- get_contracts_by_inn

AfterLookupWithoutElif(name) ==
    IF name = NoName THEN "failure" ELSE "proceed"

\* The branches of lines 65-71.
AfterLookup(name) ==
    IF name = NoName THEN "failure"
    ELSE IF Contains(NotFoundPhrase, name) THEN "not_found"
    ELSE "proceed"

NumPagesFloor(t, pp) == t \div pp

\* math.ceil(total / per_page)
NumPages(t, pp) == IF t % pp = 0 THEN t \div pp ELSE (t \div pp) + 1

LoopPagesFromTwo(n) == [k \in 1..(n - 1) |-> k + 1]

\* range(1, int(num_pages) + 1)
LoopPages(n) == [k \in 1..n |-> k]

SupplierRequest == [endpoint |-> "suppliers", page |-> 0]
\* A request to the contracts endpoint; page 0 stands for no page parameter.
ContractsRequest(p) == [endpoint |-> "contracts", page |-> p]

\* A contract record without the 'products' key.
BrokenContract ==
    [has_products |-> FALSE, products |-> <<>>, price |-> "400", regNum |-> "r4"]

\* The pages the contracts endpoint serves.
FetchPages == {<<>>, <<PlainContract, MediaContract>>, <<BrokenContract>>}

FirstResponses ==
    [kind : FailureKinds, total : {0}, perpage : {0}]
    \cup [kind : {"ok"}, total : 0..MaxTotal, perpage : 0..MaxPerPage]

PageResponses ==
    [kind : FailureKinds, data : {<<>>}] \cup [kind : {"ok"}, data : FetchPages]

Text(t) == [kind |-> "text", text |-> t]
Triple(n, t, list) == [kind |-> "triple", name |-> n, total |-> t, media |-> list]
Exception == [kind |-> "exception"]
NoResult == [kind |-> "none"]
NoResponse == [kind |-> "none", has_allNames |-> FALSE, allNames |-> <<>>]
\* get_supplier_name has returned and its locals are gone: of its response
\* only the kind is kept, for the record.
Forget(resp) == [kind |-> resp.kind, has_allNames |-> FALSE, allNames |-> <<>>]

FetchIdle ==
    /\ inn = <<>>
    /\ pc = "idle"
    /\ response = NoResponse
    /\ supplier_name = NoName
    /\ total = 0
    /\ per_page = 0
    /\ num_pages = 0
    /\ done_pages = 0
    /\ all_media_contracts = <<>>
    /\ result = NoResult
    /\ requests = <<>>
    /\ filter_calls = 0

Init ==
    /\ okpd_ref \in SUBSET OkpdCodes
    /\ okpd2_ref \in SUBSET Okpd2Codes
    /\ contracts = <<>>
    /\ media_contracts = <<>>
    /\ fpc = "idle"
    /\ inn \in Inns
    /\ pc = "start"
    /\ response = NoResponse
    /\ supplier_name = NoName
    /\ total = 0
    /\ per_page = 0
    /\ num_pages = 0
    /\ done_pages = 0
    /\ all_media_contracts = <<>>
    /\ result = NoResult
    /\ requests = <<>>
    /\ filter_calls = 0

\* Line 63: the call of get_supplier_name.
GetSupplierName ==
    /\ pc = "start"
    /\ \E resp \in LookupResponses :
        /\ response' = resp
        /\ supplier_name' = SupplierName(inn, resp)
    /\ requests' = Append(requests, SupplierRequest)
    /\ pc' = "check"
    /\ UNCHANGED <<filter_vars, inn, total, per_page, num_pages, done_pages,
                   all_media_contracts, result, filter_calls>>

\* Lines 65-67.
ReturnFailure ==
    /\ pc = "check"
    /\ AfterLookup(supplier_name) = "failure"
    /\ result' = Text(GenericFailure)
    /\ pc' = "done"
    /\ response' = Forget(response)
    /\ UNCHANGED <<filter_vars, inn, supplier_name, total, per_page,
                   num_pages, done_pages, all_media_contracts, requests, filter_calls>>

\* Lines 69-71.
ReturnNotFound ==
    /\ pc = "check"
    /\ AfterLookup(supplier_name) = "not_found"
    /\ result' = Text(supplier_name)
    /\ pc' = "done"
    /\ response' = Forget(response)
    /\ UNCHANGED <<filter_vars, inn, supplier_name, total, per_page,
                   num_pages, done_pages, all_media_contracts, requests, filter_calls>>

\* Lines 75-82: the request without a page number, and the page count.
FirstRequest ==
    /\ pc = "check"
    /\ AfterLookup(supplier_name) = "proceed"
    /\ requests' = Append(requests, ContractsRequest(0))
    /\ \E resp \in FirstResponses :
        IF resp.kind # "ok" \/ resp.perpage = 0
        THEN /\ result' = Exception
             /\ pc' = "done"
             /\ UNCHANGED <<total, per_page, num_pages>>
        ELSE /\ total' = resp.total
             /\ per_page' = resp.perpage
             /\ num_pages' = NumPages(resp.total, resp.perpage)
             /\ pc' = "loop"
             /\ UNCHANGED result
    /\ response' = Forget(response)
    /\ UNCHANGED <<filter_vars, inn, supplier_name, done_pages,
                   all_media_contracts, filter_calls>>

\* Lines 83-87: one iteration of the page loop.
PageRequest ==
    /\ pc = "loop"
    /\ done_pages < Len(LoopPages(num_pages))
    /\ requests' = Append(requests, ContractsRequest(LoopPages(num_pages)[done_pages + 1]))
    /\ \E resp \in PageResponses :
        IF resp.kind # "ok"
        THEN /\ result' = Exception
             /\ pc' = "done"
             /\ UNCHANGED <<contracts, media_contracts, fpc, done_pages,
                            all_media_contracts, filter_calls>>
        ELSE LET found == FilterMediaContracts(resp.data, okpd_ref, okpd2_ref) IN
             /\ contracts' = resp.data
             /\ filter_calls' = filter_calls + 1
             /\ media_contracts' = found.out
             /\ IF found.raised
                THEN /\ fpc' = "raised"
                     /\ result' = Exception
                     /\ pc' = "done"
                     /\ UNCHANGED <<done_pages, all_media_contracts>>
                ELSE /\ fpc' = "returned"
                     /\ all_media_contracts' = all_media_contracts \o found.out
                     /\ done_pages' = done_pages + 1
                     /\ UNCHANGED <<result, pc>>
    /\ UNCHANGED <<okpd_ref, okpd2_ref, inn, response, supplier_name, total,
                   per_page, num_pages>>

\* Line 89.
ReturnTriple ==
    /\ pc = "loop"
    /\ done_pages = Len(LoopPages(num_pages))
    /\ result' = Triple(supplier_name, total, all_media_contracts)
    /\ pc' = "done"
    /\ UNCHANGED <<filter_vars, inn, response, supplier_name, total, per_page,
                   num_pages, done_pages, all_media_contracts, requests, filter_calls>>

Next ==
    \/ GetSupplierName
    \/ ReturnFailure
    \/ ReturnNotFound
    \/ FirstRequest
    \/ PageRequest
    \/ ReturnTriple

Spec == Init /\ [][Next]_vars

\* ------------------------------------------------ the filter on its own

InitFilter ==
    /\ FetchIdle
    /\ okpd_ref \in SUBSET OkpdCodes
    /\ okpd2_ref \in SUBSET Okpd2Codes
    /\ contracts \in Pages
    /\ media_contracts = <<>>
    /\ fpc = "call"

FilterReturns ==
    /\ fpc = "call"
    /\ ~FilterMediaContracts(contracts, okpd_ref, okpd2_ref).raised
    /\ media_contracts' = FilterMediaContracts(contracts, okpd_ref, okpd2_ref).out
    /\ fpc' = "returned"
    /\ UNCHANGED <<okpd_ref, okpd2_ref, contracts, fetch_vars>>

FilterRaises ==
    /\ fpc = "call"
    /\ FilterMediaContracts(contracts, okpd_ref, okpd2_ref).raised
    /\ fpc' = "raised"
    /\ UNCHANGED <<okpd_ref, okpd2_ref, contracts, media_contracts, fetch_vars>>

NextFilter == FilterReturns \/ FilterRaises

SpecFilter == InitFilter /\ [][NextFilter]_vars

\* ================================================================ claims

\* A product's code is in a reference set, read off the record itself.
CodeInRefs(product) ==
    product.OKPD \in okpd_ref \/ product.OKPD2 \in okpd2_ref

HasMatch(contract) ==
    \E j \in 1..Len(contract.products) : CodeInRefs(contract.products[j])

Codeless(product) == product.OKPD = Absent /\ product.OKPD2 = Absent

AllCodeless(contract) ==
    \A j \in 1..Len(contract.products) : Codeless(contract.products[j])

\* The positions of the result list that hold a summary of the page's i-th
\* contract (a contract is identified by its registry number).
SummariesOf(i) ==
    {k \in 1..Len(media_contracts) :
        media_contracts[k].contract_url = <<clearspending_base, contracts[i].regNum>>}

\* The index of the first product, in list order, whose code is in a reference set.
FirstMatching(contract) ==
    CHOOSE j \in 1..Len(contract.products) :
        /\ CodeInRefs(contract.products[j])
        /\ \A l \in 1..(j - 1) : ~CodeInRefs(contract.products[l])

\* C1: when filter_media_contracts returns, its result holds at most one
\* summary per contract of the page, a summary only for a contract with at
\* least one product whose OKPD code is in the OKPD reference set or whose
\* OKPD2 code is in the OKPD2 reference set, and nothing else.
C1_AtMostOneSummaryPerContract ==
    fpc = "returned" =>
        /\ \A i \in 1..Len(contracts) :
            /\ Cardinality(SummariesOf(i)) <= 1
            /\ SummariesOf(i) # {} => HasMatch(contracts[i])
        /\ \A k \in 1..Len(media_contracts) :
            \E i \in 1..Len(contracts) : k \in SummariesOf(i)

\* A two-contract page was filtered, one contract of it has two matching
\* products and got exactly one summary.
C1_Witness ==
    /\ fpc = "returned"
    /\ Len(contracts) = 2
    /\ \E i \in 1..Len(contracts) :
        /\ Len(contracts[i].products) = 2
        /\ CodeInRefs(contracts[i].products[1])
        /\ CodeInRefs(contracts[i].products[2])
        /\ Cardinality(SummariesOf(i)) = 1

\* C2: every summary in the result carries the description and the price
\* (or their placeholders) of the first product, in list order, of its
\* contract that matches a reference set.
C2_SummaryOfFirstMatchingProduct ==
    fpc = "returned" =>
        \A i \in 1..Len(contracts) : \A k \in SummariesOf(i) :
            HasMatch(contracts[i]) =>
                LET first == contracts[i].products[FirstMatching(contracts[i])] IN
                /\ media_contracts[k].product_description =
                       (IF first.name = Absent THEN "-" ELSE first.name)
                /\ media_contracts[k].product_price =
                       (IF first.sum = Absent THEN "-" ELSE first.sum)

\* A contract whose two products both match and differ in their name was
\* summarised with the name of the first.
C2_Witness ==
    /\ fpc = "returned"
    /\ \E i \in 1..Len(contracts) :
        /\ Len(contracts[i].products) = 2
        /\ CodeInRefs(contracts[i].products[1])
        /\ CodeInRefs(contracts[i].products[2])
        /\ contracts[i].products[1].name = "n1"
        /\ contracts[i].products[2].name = Absent
        /\ \E k \in SummariesOf(i) : media_contracts[k].product_description = "n1"

\* C7: filter_media_contracts never fails on a page, whichever fields its
\* contract and product records miss.
C7_FilterNeverFails == fpc # "raised"

\* C8: a contract whose products all carry neither the OKPD nor the OKPD2
\* field gets no summary, whatever the reference sets hold, and a page made
\* of such contracts is filtered without an error, to the empty list.
C8_CodelessProductsNeverMatch ==
    /\ fpc = "returned" =>
        \A i \in 1..Len(contracts) :
            AllCodeless(contracts[i]) => SummariesOf(i) = {}
    /\ (/\ fpc \in {"returned", "raised"}
        /\ \A i \in 1..Len(contracts) :
            contracts[i].has_products /\ AllCodeless(contracts[i]))
       => fpc = "returned" /\ media_contracts = <<>>

\* Both reference sets hold a code, and a contract with two products that
\* carry no code field was filtered to nothing.
C8_Witness ==
    /\ fpc = "returned"
    /\ okpd_ref # {}
    /\ okpd2_ref # {}
    /\ contracts # <<>>
    /\ Len(contracts[1].products) = 2
    /\ AllCodeless(contracts[1])
    /\ SummariesOf(1) = {}

\* The requests the page loop issued, in order.
IsLoopRequest(r) == r.endpoint = "contracts" /\ r.page >= 1
LoopRequests == SelectSeq(requests, IsLoopRequest)
IsContractsRequest(r) == r.endpoint = "contracts"
ContractsRequests == SelectSeq(requests, IsContractsRequest)

\* The least n with n * pp >= t.
CeilingOf(t, pp) == CHOOSE n \in 0..t : n * pp >= t /\ \A m \in 0..(n - 1) : m * pp < t

\* C3: once the first contracts response reported total >= 0 and a page
\* size >= 1, the page loop requests the pages 1, 2, ... in ascending order,
\* each once, never more than ceil(total / page size) of them, and exactly
\* that many when the call returns its triple.
C3_LoopRequestsCeilingPages ==
    (pc \in {"loop", "done"} /\ per_page >= 1) =>
        /\ \A k \in 1..Len(LoopRequests) : LoopRequests[k].page = k
        /\ Len(LoopRequests) <= CeilingOf(total, per_page)
        /\ result.kind = "triple" => Len(LoopRequests) = CeilingOf(total, per_page)

\* total = 3 with page size 2: the call returned after requesting pages 1 and 2.
C3_Witness ==
    /\ result.kind = "triple"
    /\ total = 3
    /\ per_page = 2
    /\ LoopRequests = <<ContractsRequest(1), ContractsRequest(2)>>

\* C4: get_contracts_by_inn never ends with an exception reaching its caller.
C4_NoFailureCrossesBoundary == pc = "done" => result.kind # "exception"

\* C5: when get_supplier_name yields the not-found message or None, the
\* only request ever issued is the lookup, the filter is never called, and
\* the call returns that outcome.
C5_FailedLookupReturnsImmediately ==
    (pc \in {"check", "loop", "done"}
     /\ supplier_name \in {NoName, NotFoundMessage(inn)}) =>
        /\ pc \in {"check", "done"}
        /\ requests = <<SupplierRequest>>
        /\ filter_calls = 0
        /\ pc = "done" =>
            result = (IF supplier_name = NoName
                      THEN Text(GenericFailure)
                      ELSE Text(NotFoundMessage(inn)))

\* The lookup got status 404 and the call has returned the not-found message.
C5_Witness ==
    /\ pc = "done"
    /\ response.kind = "404"
    /\ result = Text(NotFoundMessage(inn))
    /\ requests = <<SupplierRequest>>

\* C6 as stated: a successful run with num_pages >= 1 requests the contracts
\* endpoint exactly num_pages times.
C6_ContractsRequestedNumPagesTimes ==
    (result.kind = "triple" /\ num_pages >= 1) =>
        Len(ContractsRequests) = num_pages

\* C6 amended: a successful run issues the lookup request, one contracts
\* request without a page number, and then one request for each of the pages
\* 1..num_pages, page 1 included: num_pages + 1 contracts requests.
C6_ContractsRequestedOncePerPagePlusOne ==
    result.kind = "triple" =>
        requests = <<SupplierRequest, ContractsRequest(0)>>
                   \o [k \in 1..num_pages |-> ContractsRequest(k)]

\* All contracts fit on one page, and the call returned after two requests
\* to the contracts endpoint.
C6_Witness ==
    /\ result.kind = "triple"
    /\ num_pages = 1
    /\ ContractsRequests = <<ContractsRequest(0), ContractsRequest(1)>>

\* C9: after a lookup whose response is a supplier record, supplier_name is
\* the first entry of allNames, or the placeholder name when allNames is
\* absent or empty.
C9_SuccessfulLookupYieldsName ==
    (pc = "check" /\ response.kind = "ok") =>
        supplier_name = (IF response.has_allNames /\ response.allNames # <<>>
                         THEN response.allNames[1]
                         ELSE Imyarek)

\* C10: get_contracts_by_inn returns a not-found text only if the lookup
\* received status 404.
C10_NotFoundOnlyOn404 ==
    (pc = "done" /\ result.kind = "text" /\ Contains(NotFoundPhrase, result.text))
        => response.kind = "404"

====
